---- MODULE Spec2Model ----
(***************************************************************************)
(* The file-sharing HTTP server of Willslima/home-server.                  *)
(*                                                                         *)
(* Two server programs are in the repository: the current one, the         *)
(* "server.js" part of src/public/client.js (lines 163-380), and an older  *)
(* one, src/client.js.  The variable server says which program runs.       *)
(*                                                                         *)
(* Strings are sequences of tokens (a token is "/" or a run of characters  *)
(* without "/"), paths are sequences of segments below __dirname, file     *)
(* contents are sequences of bytes.  Every asynchronous filesystem call of *)
(* a handler is a step of its own, so that the callbacks of requests in    *)
(* flight interleave as they do on the event loop.                         *)
(***************************************************************************)
EXTENDS Integers, Sequences, FiniteSets, TLC

VARIABLES
    server,     \* "current" (src/public/client.js) or "legacy" (src/client.js)
    fs,         \* the filesystem below __dirname: path -> entry
    req,        \* slot -> the request in flight in it (its handler's closure)
    resp,       \* the response most recently completed
    crashed,    \* an exception escaped a handler: the process is gone
    issued,     \* number of requests received so far
    handles,    \* number of file descriptors the read streams hold open
    stored,     \* history: path -> bytes an upload moved there, until removed
    ever        \* history: original filenames of the uploads that succeeded

vars == <<server, fs, req, resp, crashed, issued, handles, stored, ever>>

----------------------------------------------------------------------------
(* Bounds *)

MaxRequests == 2

Slots == {1, 2}

SeqRange(s) == {s[i] : i \in 1..Len(s)}

----------------------------------------------------------------------------
(* Strings, percent-encoding, paths *)

\* encodeURIComponent on one token
EncodeToken(t) ==
    IF t = "/" THEN "%2F"
    ELSE IF t = "%" THEN "%25"
    ELSE t

\* encodeURIComponent(fileName), as the client page builds its links
EncodeURIComponent(s) == [i \in 1..Len(s) |-> EncodeToken(s[i])]

\* decodeURIComponent throws URIError on a "%" that starts no escape
Malformed(s) == \E i \in 1..Len(s) : s[i] = "%"

\* a decoder that leaves every escape as it is
DecodeTokenRaw(t) == t

DecodeToken(t) ==
    IF t = "%2F" THEN "/"
    ELSE IF t = "%25" THEN "%"
    ELSE t

DecodeURIComponent(s) == [i \in 1..Len(s) |-> DecodeToken(s[i])]

\* req.url.split('/').pop(): what follows the last "/"
RECURSIVE LastSegment(_)
LastSegment(url) ==
    IF url = <<>> THEN <<>>
    ELSE IF url[Len(url)] = "/" THEN <<>>
    ELSE Append(LastSegment(SubSeq(url, 1, Len(url) - 1)), url[Len(url)])

StartsWith(url, prefix) ==
    /\ Len(url) >= Len(prefix)
    /\ SubSeq(url, 1, Len(prefix)) = prefix

\* the characters of one path segment
RECURSIVE Concat(_)
Concat(s) == IF s = <<>> THEN "" ELSE s[1] \o Concat(Tail(s))

\* split a token string on "/" into its segments (strings)
RECURSIVE Segments(_, _)
Segments(s, cur) ==
    IF s = <<>> THEN <<Concat(cur)>>
    ELSE IF s[1] = "/" THEN <<Concat(cur)>> \o Segments(Tail(s), <<>>)
    ELSE Segments(Tail(s), Append(cur, s[1]))

\* path.normalize on a list of segments: "" and "." vanish, ".." climbs
RECURSIVE Normalize(_, _)
Normalize(segs, acc) ==
    IF segs = <<>> THEN acc
    ELSE IF segs[1] = "" \/ segs[1] = "." THEN Normalize(Tail(segs), acc)
    ELSE IF segs[1] = ".."
        THEN IF acc # <<>> /\ acc[Len(acc)] # ".."
             THEN Normalize(Tail(segs), SubSeq(acc, 1, Len(acc) - 1))
             ELSE Normalize(Tail(segs), Append(acc, ".."))
    ELSE Normalize(Tail(segs), Append(acc, segs[1]))

\* path.join(dir, name)
PathJoin(dir, name) == Normalize(Segments(name, <<>>), dir)

UPLOAD_DIR == <<"uploads">>
PUBLIC_DIR == <<"public">>

----------------------------------------------------------------------------
(* The filesystem: a function from the paths that exist to their entries *)

File(bytes) == [type |-> "file", content |-> bytes]
Dir == [type |-> "dir", content |-> <<>>]
Special == [type |-> "special", content |-> <<>>]

Parent(p) == SubSeq(p, 1, Len(p) - 1)

\* the errno of resolving path p
PathError(f, p) ==
    IF p \in DOMAIN f THEN "OK"
    ELSE IF \E i \in 1..(Len(p) - 1) :
                /\ SubSeq(p, 1, i) \in DOMAIN f
                /\ f[SubSeq(p, 1, i)].type # "dir"
         THEN "ENOTDIR"
    ELSE "ENOENT"

\* fs.rename(oldPath, newPath): its errno
RenameError(f, old, new) ==
    IF old \notin DOMAIN f THEN "ENOENT"
    ELSE IF new = <<>> \/ PathError(f, Parent(new)) # "OK" THEN "ENOENT"
    ELSE IF f[Parent(new)].type # "dir" THEN "ENOTDIR"
    ELSE IF new \in DOMAIN f /\ f[new].type = "dir" THEN "EISDIR"
    ELSE "OK"

\* a rename that keeps a destination that exists
RenameApplyKeep(f, old, new) ==
    IF old = new THEN f
    ELSE IF new \in DOMAIN f THEN [q \in DOMAIN f \ {old} |-> f[q]]
    ELSE [q \in (DOMAIN f \ {old}) \cup {new} |-> IF q = new THEN f[old] ELSE f[q]]

\* fs.rename(oldPath, newPath): the atomic replacement of newPath
RenameApply(f, old, new) ==
    IF old = new THEN f
    ELSE [q \in (DOMAIN f \ {old}) \cup {new} |-> IF q = new THEN f[old] ELSE f[q]]

\* fs.unlink(filePath): its errno
UnlinkError(f, p) ==
    IF PathError(f, p) # "OK" THEN PathError(f, p)
    ELSE IF f[p].type = "dir" THEN "EISDIR"
    ELSE "OK"

\* an unlink that removes nothing
UnlinkApplyNothing(f, p) == f

\* fs.unlink(filePath): the entry is gone
UnlinkApply(f, p) == [q \in DOMAIN f \ {p} |-> f[q]]

\* the names fs.readdir(UPLOAD_DIR) enumerates
ReaddirNames(f) ==
    {p[Len(p)] : p \in {q \in DOMAIN f : Len(q) = Len(UPLOAD_DIR) + 1
                                          /\ Parent(q) = UPLOAD_DIR}}

\* some enumeration order: the order of readdir is the directory's
RECURSIVE SeqOf(_)
SeqOf(S) ==
    IF S = {} THEN <<>>
    ELSE LET x == CHOOSE y \in S : TRUE IN <<x>> \o SeqOf(S \ {x})

\* a filter that keeps every entry stat can inspect
StatExists(f, file) ==
    LET p == PathJoin(UPLOAD_DIR, <<file>>)
    IN  p \in DOMAIN f

\* fs.statSync(path.join(UPLOAD_DIR, file)).isFile(), false when stat throws
StatIsFile(f, file) ==
    LET p == PathJoin(UPLOAD_DIR, <<file>>)
    IN  p \in DOMAIN f /\ f[p].type = "file"

\* formidable's staging file name: unique per file part
StagingName(n) == "tmp" \o ToString(n)

----------------------------------------------------------------------------
(* Requests a client can send *)

B1 == <<"x">>
B2 == <<"y", "z">>
Contents == {B1, B2}

\* original filenames a client supplies in the multipart body
FlatName == <<"a">>
DotName == <<".", "/", "a">>
DirName == <<"d">>
EscapeName == <<"..", "/", "public", "/", "client", ".html">>
Names == {FlatName, DotName, DirName, EscapeName}

\* the name of a second file sent in the same field
SecondName == <<"b">>

Part(field, hasName, name, bytes) ==
    [field |-> field, hasName |-> hasName, originalFilename |-> name, bytes |-> bytes]

\* multipart bodies: the file parts formidable sees, and whether the body
\* is malformed after them
Payloads ==
    {[malformed |-> FALSE, parts |-> <<Part("myFile", TRUE, n, B1)>>] : n \in Names}
    \cup {[malformed |-> FALSE, parts |-> <<Part("myFile", TRUE, FlatName, B2)>>],
          [malformed |-> TRUE, parts |-> <<Part("myFile", TRUE, FlatName, B1)>>],
          [malformed |-> FALSE, parts |-> <<Part("other", TRUE, FlatName, B1)>>],
          [malformed |-> FALSE, parts |-> <<Part("myFile", FALSE, <<>>, B1)>>],
          [malformed |-> FALSE,
           parts |-> <<Part("myFile", TRUE, FlatName, B1),
                       Part("myFile", TRUE, SecondName, B2)>>]}

UploadUrl == <<"/", "upload">>
FilesUrl == <<"/", "files">>
DownloadPrefix == <<"/", "download", "/">>
DeletePrefix == <<"/", "delete", "/">>

\* final path segments of download and delete requests: the links of the
\* client page (encodeURIComponent of a name), and hand-made ones
Targets == {FlatName, DirName, EscapeName, <<StagingName(1)>>}
Tails == {EncodeURIComponent(n) : n \in Targets} \cup {<<"%">>}

\* a path that climbs out of the assets root to a stored file
ClimbUrl == <<"/", "..", "/", "uploads", "/", "a">>

StaticUrls ==
    {<<"/">>, <<"/", "client", ".js">>, <<"/", "missing", ".txt">>, ClimbUrl}

\* the requests clients send: every route with its method, an OPTIONS
\* preflight of every path, and paths under a method their route does not take
Requests ==
    {<<"POST", UploadUrl>>, <<"GET", FilesUrl>>}
    \cup {<<"GET", DownloadPrefix \o t>> : t \in Tails}
    \cup {<<"DELETE", DeletePrefix \o t>> : t \in Tails}
    \cup {<<"GET", u>> : u \in StaticUrls}
    \cup {<<"OPTIONS", u>> : u \in {UploadUrl, DeletePrefix \o FlatName}}
    \cup {<<"POST", FilesUrl>>, <<"GET", DeletePrefix \o FlatName>>}

Urls == {q[2] : q \in Requests}

----------------------------------------------------------------------------
(* Responses *)

\* the res.setHeader calls that open the request handler
CorsHeaders(srv) ==
    [origin |-> "*",
     methods |-> IF srv = "current" THEN <<"GET", "POST", "DELETE", "OPTIONS">>
                 ELSE <<"GET", "POST", "OPTIONS">>,
     headers |-> <<"Content-Type", "X-Requested-With">>]

\* history, noted with a response: what the storage and the request were
\* when the response was decided
NoHist ==
    [want |-> <<>>, never |-> FALSE, gone |-> FALSE, clean |-> FALSE,
     regular |-> {}, live |-> {}, omit |-> {},
     malformed |-> FALSE, hadFile |-> FALSE, sentName |-> <<>>, placed |-> FALSE,
     replaced |-> FALSE, raced |-> FALSE, had |-> <<>>, swapped |-> FALSE,
     enumerated |-> {}, missing |-> {}, rest |-> {}, left |-> {}]

\* res.writeHead(status, {'Content-Type': ctype}) and res.end(...)
Response(srv, handler, method, url, status, ctype, success, message, body) ==
    [cors |-> CorsHeaders(srv), handler |-> handler, method |-> method, url |-> url,
     status |-> status, ctype |-> ctype, success |-> success, message |-> message,
     fileName |-> <<>>, files |-> <<>>, body |-> body, hist |-> NoHist]

NoResponse == Response("current", "none", "", <<>>, 0, "", "-", "", <<>>)

\* a slot with no request in it
Idle ==
    [pc |-> "idle", method |-> "", url |-> <<>>, malformed |-> FALSE, parts |-> <<>>,
     fileName |-> <<>>, filePath |-> <<>>, oldPath |-> <<>>, bytes |-> <<>>,
     files |-> <<>>, err |-> "", want |-> <<>>, clean |-> TRUE, never |-> FALSE,
     gone |-> FALSE, swapped |-> FALSE]

----------------------------------------------------------------------------
(* Routing: the if / else-if chain of the request handler *)

\* a chain without the OPTIONS branch at its head
RouteNoOptions(srv, method, url) ==
    IF url = UploadUrl /\ method = "POST" THEN "upload"
    ELSE IF url = FilesUrl /\ method = "GET" THEN "files"
    ELSE IF StartsWith(url, DownloadPrefix) /\ method = "GET" THEN "download"
    ELSE IF srv = "current"
        THEN IF StartsWith(url, DeletePrefix) /\ method = "DELETE" THEN "delete"
             ELSE "static"
    ELSE IF url = <<"/", "client", ".js">> /\ method = "GET" THEN "clientjs"
    ELSE "fallback"

Route(srv, method, url) ==
    IF method = "OPTIONS" THEN "options"
    ELSE IF url = UploadUrl /\ method = "POST" THEN "upload"
    ELSE IF url = FilesUrl /\ method = "GET" THEN "files"
    ELSE IF StartsWith(url, DownloadPrefix) /\ method = "GET" THEN "download"
    ELSE IF srv = "current"
        THEN IF StartsWith(url, DeletePrefix) /\ method = "DELETE" THEN "delete"
             ELSE "static"
    ELSE IF url = <<"/", "client", ".js">> /\ method = "GET" THEN "clientjs"
    ELSE "fallback"

\* a request can arrive while the process lives
Arrives(method, url, handler) ==
    /\ ~crashed
    /\ issued < MaxRequests
    /\ Route(server, method, url) = handler
    /\ <<method, url>> \in Requests

\* requests in flight take the lowest free slot
Free(r) ==
    /\ req[r].pc = "idle"
    /\ \A q \in Slots : q < r => req[q].pc # "idle"

\* history: requests in flight whose view of the storage a change of the
\* paths P may invalidate
Mark(rs, P) ==
    [q \in Slots |->
        IF rs[q].pc = "readdir" \/ (rs[q].pc # "idle" /\ rs[q].filePath \in P)
        THEN [rs[q] EXCEPT !.clean = FALSE]
        ELSE rs[q]]

\* history: requests in flight that see a rename replace the path p they use
Swapped(rs, p) ==
    [q \in Slots |->
        IF rs[q].pc # "idle" /\ rs[q].filePath = p
        THEN [rs[q] EXCEPT !.swapped = TRUE]
        ELSE rs[q]]

\* history: the bytes a download of url is to return, when the link names a
\* file an upload has stored and nothing has replaced or removed since
Want(url) ==
    LET hits == {n \in Targets :
                    /\ url = DownloadPrefix \o EncodeURIComponent(n)
                    /\ PathJoin(UPLOAD_DIR, n) \in DOMAIN stored}
    IN  IF hits = {} THEN <<>>
        ELSE <<stored[PathJoin(UPLOAD_DIR, CHOOSE n \in hits : TRUE)]>>

\* history: the paths uploads have stored a file at, and those of them a
\* delete has removed since
EverPaths == {PathJoin(UPLOAD_DIR, n) : n \in ever}
Gone == EverPaths \ DOMAIN stored

\* history: the original filenames whose file an upload stored and no delete
\* has removed since
Live == {n \in ever : PathJoin(UPLOAD_DIR, n) \in DOMAIN stored}

\* history: the regular files that are direct children of the storage
RegularNames(f) ==
    {p[Len(p)] : p \in {q \in DOMAIN f : /\ Len(q) = Len(UPLOAD_DIR) + 1
                                           /\ Parent(q) = UPLOAD_DIR
                                           /\ f[q].type = "file"}}

Finish(r, response) ==
    /\ req' = [req EXCEPT ![r] = Idle]
    /\ resp' = response

----------------------------------------------------------------------------
(* OPTIONS *)

Options(method, url) ==
    /\ Arrives(method, url, "options")
    /\ issued' = issued + 1
    /\ resp' = Response(server, "options", method, url, 204, "", "-", "", <<>>)
    /\ UNCHANGED <<server, handles, fs, req, crashed, stored, ever>>

----------------------------------------------------------------------------
(* POST /upload *)

\* a form that writes its first file part under a final name at once
StagingPathFinal(n) ==
    IF n = 1 THEN UPLOAD_DIR \o <<"b">> ELSE UPLOAD_DIR \o <<StagingName(n)>>

\* uploadedFile.filepath: formidable's staging file in uploadDir
StagingPath(n) == UPLOAD_DIR \o <<StagingName(n)>>

\* paths the requests in flight hold: formidable's random staging names
\* collide with none of them, nor with a file that exists
Held ==
    UNION {{req[q].filePath, req[q].oldPath}
           \cup {req[q].parts[i].filepath : i \in 1..Len(req[q].parts)}
           \cup {UPLOAD_DIR \o <<req[q].files[i]>> : i \in 1..Len(req[q].files)}
           : q \in {z \in Slots : req[z].pc # "idle"}}

RECURSIVE Nth(_, _)
Nth(S, k) ==
    LET least == CHOOSE x \in S : \A y \in S : x <= y
    IN  IF k = 1 THEN least ELSE Nth(S \ {least}, k - 1)

\* staging names that start over with every request
FreshIndexSame(k) == k

\* the k-th unused staging name
FreshIndex(k) ==
    Nth({i \in 1..(2 * MaxRequests) : StagingPath(i) \notin DOMAIN fs \cup Held}, k)

\* all but the last byte: a file part still being received
Front(bytes) == SubSeq(bytes, 1, Len(bytes) - 1)

\* the file part staged at path q
PartAt(parts, q) == parts[CHOOSE i \in 1..Len(parts) : parts[i].filepath = q]

\* form.parse(req, ...): formidable writes each file part to a staging file
\* in uploadDir while the body arrives
UploadBegin(r, body) ==
    /\ Arrives("POST", UploadUrl, "upload")
    /\ Free(r)
    /\ body \in Payloads
    /\ LET n == Len(body.parts)
           staged == [i \in 1..n |->
                        [field |-> body.parts[i].field,
                         hasName |-> body.parts[i].hasName,
                         originalFilename |-> body.parts[i].originalFilename,
                         bytes |-> body.parts[i].bytes,
                         filepath |-> StagingPath(FreshIndex(i))]]
           new == {staged[i].filepath : i \in 1..n}
       IN  /\ fs' = [q \in DOMAIN fs \cup new |->
                        IF q \in new
                        THEN File(Front(PartAt(staged, q).bytes))
                        ELSE fs[q]]
           /\ req' = [Mark(req, new) EXCEPT ![r] =
                        [Idle EXCEPT !.pc = "parse", !.method = "POST",
                                     !.url = UploadUrl,
                                     !.malformed = body.malformed,
                                     !.parts = staged]]
    /\ issued' = issued + 1
    /\ UNCHANGED <<server, handles, resp, crashed, stored, ever>>

\* a pick of the last file part of the field
UploadedFileLast(parts) ==
    LET mine == SelectSeq(parts, LAMBDA p : p.field = "myFile")
    IN  IF mine = <<>> THEN <<>> ELSE <<mine[Len(mine)]>>

\* a pick of the first file part of any field
UploadedFileAny(parts) == IF parts = <<>> THEN <<>> ELSE <<parts[1]>>

\* files.myFile && Array.isArray(files.myFile) ? files.myFile[0] : files.myFile
\* as the sequence of the parts of field myFile, cut to its first element
UploadedFile(parts) ==
    LET mine == SelectSeq(parts, LAMBDA p : p.field = "myFile")
    IN  IF mine = <<>> THEN <<>> ELSE <<mine[1]>>

\* the staging files as formidable leaves them when the body has been read:
\* every part written in full (a staging file unlinked meanwhile stays gone)
Written(f, parts) ==
    LET paths == {parts[i].filepath : i \in 1..Len(parts)}
    IN  [q \in DOMAIN f |->
            IF q \in paths THEN File(PartAt(parts, q).bytes) ELSE f[q]]

\* formidable destroys the files it opened when parsing fails
Destroyed(f, parts) ==
    LET paths == {parts[i].filepath : i \in 1..Len(parts)}
    IN  [q \in DOMAIN f \ paths |-> f[q]]

\* history: some path other than the staging paths differs between f and g
Changed(f, g, paths) ==
    \E p \in (DOMAIN f \cup DOMAIN g) \ paths :
        p \notin DOMAIN f \/ p \notin DOMAIN g \/ f[p] # g[p]

\* history of an upload: the body sent, whether its file is now in place, and
\* the staging files of the request that are still in uploadDir
UploadHist(r, placed) ==
    LET mine == SelectSeq(req[r].parts, LAMBDA p : p.field = "myFile")
    IN  [NoHist EXCEPT !.malformed = req[r].malformed,
                       !.hadFile = mine # <<>>,
                       !.sentName = IF mine # <<>> THEN mine[1].originalFilename
                                    ELSE <<>>,
                       !.placed = placed,
                       !.rest = {mine[i].originalFilename : i \in 2..Len(mine)},
                       !.left = {req[r].parts[i].filepath :
                                    i \in 1..Len(req[r].parts)} \cap DOMAIN fs']

\* the callback of form.parse
UploadParsed(r) ==
    /\ ~crashed
    /\ req[r].pc = "parse"
    /\ LET parts == req[r].parts
           paths == {parts[i].filepath : i \in 1..Len(parts)}
           picked == UploadedFile(parts)
       IN  IF req[r].malformed
           THEN /\ fs' = Destroyed(fs, parts)
                /\ req' = [Mark(req, paths) EXCEPT ![r] = Idle]
                /\ resp' = [Response(server, "upload", "POST", UploadUrl, 500,
                                     "application/json", "false",
                                     "File upload failed.", <<>>)
                              EXCEPT !.hist = UploadHist(r, Changed(fs, fs', paths))]
                /\ UNCHANGED crashed
           ELSE /\ fs' = Written(fs, parts)
                /\ IF picked = <<>>
                   THEN /\ req' = [Mark(req, paths) EXCEPT ![r] = Idle]
                        /\ resp' = [Response(server, "upload", "POST", UploadUrl, 400,
                                     "application/json", "false",
                                     "No file uploaded or file field \"myFile\" not found.",
                                     <<>>)
                                      EXCEPT !.hist = UploadHist(r, Changed(fs, fs', paths))]
                        /\ UNCHANGED crashed
                   ELSE IF ~picked[1].hasName
                   THEN \* path.join(UPLOAD_DIR, undefined) throws in the callback
                        /\ crashed' = TRUE
                        /\ req' = Mark(req, paths)
                        /\ UNCHANGED resp
                   ELSE /\ req' = [Mark(req, paths) EXCEPT ![r] =
                                    [req[r] EXCEPT
                                       !.pc = "rename",
                                       !.oldPath = picked[1].filepath,
                                       !.fileName = picked[1].originalFilename,
                                       !.bytes = picked[1].bytes,
                                       !.filePath =
                                           PathJoin(UPLOAD_DIR,
                                                    picked[1].originalFilename)]]
                        /\ UNCHANGED <<resp, crashed>>
    /\ UNCHANGED <<server, handles, issued, stored, ever>>

\* fs.rename(oldPath, newPath) and its callback
UploadRename(r) ==
    /\ ~crashed
    /\ req[r].pc = "rename"
    /\ LET old == req[r].oldPath
           new == req[r].filePath
           renameErr == RenameError(fs, old, new)
       IN  IF renameErr # "OK"
           THEN /\ UNCHANGED <<fs, stored, ever>>
                /\ Finish(r, [Response(server, "upload", "POST", UploadUrl, 500,
                                       "application/json", "false",
                                       "Error saving file.", <<>>)
                                EXCEPT !.hist = UploadHist(r, Changed(fs, fs', {old}))])
           ELSE /\ fs' = RenameApply(fs, old, new)
                /\ stored' = [q \in (DOMAIN stored \ {old}) \cup {new} |->
                                IF q = new THEN req[r].bytes ELSE stored[q]]
                /\ ever' = ever \cup {req[r].fileName}
                /\ req' = [Swapped(Mark(req, {old, new}), new) EXCEPT ![r] = Idle]
                /\ resp' = [Response(server, "upload", "POST", UploadUrl, 200,
                                     "application/json", "true",
                                     "File uploaded successfully!", <<>>)
                              EXCEPT !.fileName = req[r].fileName,
                                     !.hist = [UploadHist(r,
                                                 /\ fs' # fs
                                                 /\ new \in DOMAIN fs'
                                                 /\ fs'[new] = File(req[r].bytes))
                                        EXCEPT !.replaced =
                                                 /\ new \in DOMAIN fs
                                                 /\ fs[new] # File(req[r].bytes),
                                               !.raced = ~req[r].clean]]
    /\ UNCHANGED <<server, handles, crashed, issued>>

----------------------------------------------------------------------------
(* GET /files *)

\* fs.readdir(UPLOAD_DIR, ...) enumerates the directory in the thread pool
ListReaddir(r, failed) ==
    /\ Arrives("GET", FilesUrl, "files")
    /\ Free(r)
    /\ failed \in BOOLEAN
    /\ req' = [req EXCEPT ![r] =
                [Idle EXCEPT !.pc = "readdir", !.method = "GET", !.url = FilesUrl,
                             !.err = IF failed THEN "EIO" ELSE "OK",
                             !.files = IF failed THEN <<>>
                                       ELSE SeqOf(ReaddirNames(fs))]]
    /\ issued' = issued + 1
    /\ UNCHANGED <<server, handles, fs, resp, crashed, stored, ever>>

\* a filter that gives the listing up when an entry cannot be inspected
FilterFilesAbort(f, files) ==
    IF \E i \in 1..Len(files) : PathJoin(UPLOAD_DIR, <<files[i]>>) \notin DOMAIN f
    THEN <<>>
    ELSE SelectSeq(files, LAMBDA file : StatIsFile(f, file))

\* files.filter(file => fs.statSync(path.join(UPLOAD_DIR, file)).isFile())
FilterFiles(f, files) == SelectSeq(files, LAMBDA file : StatIsFile(f, file))

\* the callback of fs.readdir
ListCallback(r) ==
    /\ ~crashed
    /\ req[r].pc = "readdir"
    /\ IF req[r].err # "OK"
       THEN Finish(r, Response(server, "files", "GET", FilesUrl, 500,
                               "application/json", "false", "Could not list files.", <<>>))
       ELSE Finish(r, [Response(server, "files", "GET", FilesUrl, 200,
                                "application/json", "true", "", <<>>)
                         EXCEPT !.files = FilterFiles(fs, req[r].files),
                                !.hist = [NoHist EXCEPT
                                            !.clean = req[r].clean,
                                            !.regular = RegularNames(fs),
                                            !.live = IF req[r].clean THEN Live ELSE {},
                                            !.omit = Gone,
                                            !.enumerated = SeqRange(req[r].files),
                                            !.missing =
                                                {n \in SeqRange(req[r].files) :
                                                    PathJoin(UPLOAD_DIR, <<n>>)
                                                        \notin DOMAIN fs}]])
    /\ UNCHANGED <<server, handles, fs, crashed, issued, stored, ever>>

----------------------------------------------------------------------------
(* GET /download/{name} *)

\* the handler up to the callback of fs.access(filePath, F_OK, ...)
DownloadAccess(r, url) ==
    /\ Arrives("GET", url, "download")
    /\ Free(r)
    /\ issued' = issued + 1
    /\ IF Malformed(LastSegment(url))
       THEN \* decodeURIComponent throws in the request handler
            /\ crashed' = TRUE
            /\ UNCHANGED <<req, resp>>
       ELSE LET fileName == DecodeURIComponent(LastSegment(url))
                filePath == PathJoin(UPLOAD_DIR, fileName)
            IN  /\ UNCHANGED crashed
                /\ IF PathError(fs, filePath) # "OK"
                   THEN /\ resp' = [Response(server, "download", "GET", url, 404,
                                             "text/plain", "-", "File not found.", <<>>)
                                      EXCEPT !.fileName = fileName,
                                             !.hist = [NoHist EXCEPT
                                                !.want = Want(url),
                                                !.had = Want(url),
                                                !.never = filePath \notin EverPaths,
                                                !.gone = filePath \in Gone]]
                        /\ UNCHANGED req
                   ELSE \* res.writeHead(200, ...): the status line is sent
                        /\ req' = [req EXCEPT ![r] =
                                    [Idle EXCEPT !.pc = "open", !.method = "GET",
                                                 !.url = url, !.fileName = fileName,
                                                 !.filePath = filePath,
                                                 !.want = Want(url),
                                                 !.never = filePath \notin EverPaths,
                                                 !.gone = filePath \in Gone]]
                        /\ UNCHANGED resp
    /\ UNCHANGED <<server, handles, fs, stored, ever>>

DownloadResponse(r, body) ==
    [Response(server, "download", "GET", req[r].url, 200,
              "application/octet-stream", "-", "", body)
       EXCEPT !.fileName = req[r].fileName,
              !.hist = [NoHist EXCEPT
                          !.want = IF req[r].clean THEN req[r].want ELSE <<>>,
                          !.had = req[r].want,
                          !.swapped = req[r].swapped,
                          !.never = req[r].never,
                          !.gone = req[r].gone]]

\* a stream whose 'error' event nobody listens to
StreamErrorIgnored(r) == UNCHANGED <<req, resp>>

\* fileStream.on('error', ...): res.end('Error downloading file.')
StreamError(r) == Finish(r, DownloadResponse(r, <<"Error downloading file.">>))

\* an open that truncates the file, as flags 'w' would
OpenTruncate(f, p) == [f EXCEPT ![p] = File(<<>>)]

\* the filesystem after fs.open(filePath, 'r'), the read stream's default flags
OpenRead(f, p) == f

\* fs.createReadStream(filePath) opens the file, or emits 'error'
DownloadOpen(r) ==
    /\ ~crashed
    /\ req[r].pc = "open"
    /\ IF req[r].filePath \in DOMAIN fs /\ fs[req[r].filePath].type = "file"
       THEN /\ fs' = OpenRead(fs, req[r].filePath)
            /\ handles' = handles + 1
            /\ req' = [req EXCEPT ![r] =
                        [req[r] EXCEPT !.pc = "stream",
                                       !.bytes = fs[req[r].filePath].content]]
            /\ UNCHANGED resp
       ELSE /\ StreamError(r)
            /\ UNCHANGED <<fs, handles>>
    /\ UNCHANGED <<server, crashed, issued, stored, ever>>

\* fileStream.pipe(res): the bytes of the open file, then 'end', on which the
\* stream closes its descriptor and the response is ended
DownloadPipe(r) ==
    /\ ~crashed
    /\ req[r].pc = "stream"
    /\ handles' = handles - 1
    /\ Finish(r, DownloadResponse(r, req[r].bytes))
    /\ UNCHANGED <<server, fs, crashed, issued, stored, ever>>

\* the client goes away while the file is piped: res emits 'close', pipe
\* unpipes the read stream, which stays paused with its descriptor open
\* (nothing listens to 'close' and nothing destroys the stream)
Disconnect(r) ==
    /\ ~crashed
    /\ req[r].pc = "stream"
    /\ req' = [req EXCEPT ![r] = Idle]
    /\ UNCHANGED <<server, handles, fs, resp, crashed, issued, stored, ever>>

----------------------------------------------------------------------------
(* DELETE /delete/{name} *)

\* the handler, fs.unlink(filePath) and its callback
DeleteUnlink(url) ==
    /\ Arrives("DELETE", url, "delete")
    /\ issued' = issued + 1
    /\ IF Malformed(LastSegment(url))
       THEN \* decodeURIComponent throws in the request handler
            /\ crashed' = TRUE
            /\ UNCHANGED <<req, resp, fs, stored>>
       ELSE LET fileName == DecodeURIComponent(LastSegment(url))
                filePath == PathJoin(UPLOAD_DIR, fileName)
                err == UnlinkError(fs, filePath)
                answer(status, success, message) ==
                    [Response(server, "delete", "DELETE", url, status,
                              "application/json", success, message, <<>>)
                       EXCEPT !.fileName = fileName,
                              !.hist = [NoHist EXCEPT
                                          !.never = filePath \notin EverPaths]]
            IN  /\ UNCHANGED crashed
                /\ IF err = "OK"
                   THEN /\ fs' = UnlinkApply(fs, filePath)
                        /\ stored' = [q \in DOMAIN stored \ {filePath} |-> stored[q]]
                        /\ req' = Mark(req, {filePath})
                        /\ resp' = answer(200, "true", "File deleted successfully!")
                   ELSE /\ UNCHANGED <<fs, stored, req>>
                        /\ resp' = IF err = "ENOENT"
                                   THEN answer(404, "false", "File not found.")
                                   ELSE answer(500, "false", "Failed to delete file")
    /\ UNCHANGED <<server, handles, ever>>

----------------------------------------------------------------------------
(* Static assets *)

Page == <<"<html>">>
Script == <<"script">>

ExtTokens == {".html", ".js", ".txt", ".HTML"}

\* String(path.extname(filePath)).toLowerCase()
ExtName(tokens) ==
    IF Len(LastSegment(tokens)) >= 2
       /\ tokens[Len(tokens)] \in ExtTokens
    THEN IF tokens[Len(tokens)] = ".HTML" THEN ".html" ELSE tokens[Len(tokens)]
    ELSE ""

\* mimeTypes[extname] || 'application/octet-stream'
MimeType(ext) ==
    IF ext = ".html" THEN "text/html"
    ELSE IF ext = ".js" THEN "application/javascript"
    ELSE IF ext = ".css" THEN "text/css"
    ELSE IF ext = ".json" THEN "application/json"
    ELSE IF ext = ".png" THEN "image/png"
    ELSE IF ext = ".jpg" THEN "image/jpeg"
    ELSE IF ext = ".gif" THEN "image/gif"
    ELSE IF ext = ".svg" THEN "image/svg+xml"
    ELSE IF ext = ".ico" THEN "image/x-icon"
    ELSE "application/octet-stream"

\* fs.readFile(filePath, ...): its errno
ReadFileError(f, p) ==
    IF PathError(f, p) # "OK" THEN PathError(f, p)
    ELSE IF f[p].type = "dir" THEN "EISDIR"
    ELSE "OK"

\* the static branch of the current server, with the callback of fs.readFile
ServeStatic(method, url) ==
    /\ Arrives(method, url, "static")
    /\ issued' = issued + 1
    /\ LET requestedPath == IF url = <<"/">> THEN <<"/", "client", ".html">> ELSE url
           filePath == PathJoin(PUBLIC_DIR, requestedPath)
           contentType == MimeType(ExtName(requestedPath))
           e == ReadFileError(fs, filePath)
       IN  resp' = IF e = "ENOENT"
                   THEN Response(server, "static", method, url, 404, "text/html", "-",
                                 "404 Not Found", <<>>)
                   ELSE IF e # "OK"
                   THEN Response(server, "static", method, url, 500, "", "-",
                                 "500 Internal Server Error", <<>>)
                   ELSE Response(server, "static", method, url, 200, contentType, "-",
                                 "", fs[filePath].content)
    /\ UNCHANGED <<server, handles, fs, req, crashed, stored, ever>>

\* GET /client.js of the older server
LegacyClientJs(method, url) ==
    /\ Arrives(method, url, "clientjs")
    /\ issued' = issued + 1
    /\ LET jsPath == <<"client.js">>
       IN  resp' = IF ReadFileError(fs, jsPath) # "OK"
                   THEN Response(server, "clientjs", method, url, 500, "text/plain", "-",
                                 "Internal Server Error: Could not load JavaScript file.",
                                 <<>>)
                   ELSE Response(server, "clientjs", method, url, 200, "text/javascript",
                                 "-", "", fs[jsPath].content)
    /\ UNCHANGED <<server, handles, fs, req, crashed, stored, ever>>

\* the fallback of the older server: the client page for anything else
LegacyFallback(method, url) ==
    /\ Arrives(method, url, "fallback")
    /\ issued' = issued + 1
    /\ LET clientPath == <<"client.html">>
       IN  resp' = IF ReadFileError(fs, clientPath) # "OK"
                   THEN Response(server, "fallback", method, url, 500, "text/plain", "-",
                                 "Internal Server Error: Could not load client page.",
                                 <<>>)
                   ELSE Response(server, "fallback", method, url, 200, "text/html", "-",
                                 "", fs[clientPath].content)
    /\ UNCHANGED <<server, handles, fs, req, crashed, stored, ever>>

----------------------------------------------------------------------------
(* The two programs *)

\* what both programs find below __dirname when they start: the upload
\* directory (made at startup when absent), with a sub-directory and a
\* special file an operator has put there
Storage ==
    (<<>> :> Dir) @@ (UPLOAD_DIR :> Dir)
    @@ (UPLOAD_DIR \o <<"d">> :> Dir) @@ (UPLOAD_DIR \o <<"fifo">> :> Special)

\* files uploaded before the server was last started stay in the storage
Kept == {<< >>, (UPLOAD_DIR \o <<Concat(FlatName)>> :> B1)}

Started(srv, files, kept) ==
    /\ server = srv
    /\ fs = [p \in DOMAIN kept |-> File(kept[p])] @@ files
    /\ req = [r \in Slots |-> Idle]
    /\ resp = NoResponse
    /\ crashed = FALSE
    /\ issued = 0
    /\ handles = 0
    /\ stored = kept
    /\ ever = IF kept = << >> THEN {} ELSE {FlatName}

\* src/public/client.js: the assets are in PUBLIC_DIR
Init ==
    \E kept \in Kept :
        Started("current",
                Storage @@ (PUBLIC_DIR :> Dir)
                @@ (PUBLIC_DIR \o <<"client.html">> :> File(Page))
                @@ (PUBLIC_DIR \o <<"client.js">> :> File(Script)),
                kept)

\* src/client.js: the assets are next to the server
InitLegacy ==
    \E kept \in Kept :
        Started("legacy",
                Storage @@ (<<"client.html">> :> File(Page))
                @@ (<<"client.js">> :> File(Script)),
                kept)

Common ==
    \/ \E q \in Requests : Options(q[1], q[2])
    \/ \E r \in Slots, b \in Payloads : UploadBegin(r, b)
    \/ \E r \in Slots : UploadParsed(r)
    \/ \E r \in Slots : UploadRename(r)
    \/ \E r \in Slots, failed \in BOOLEAN : ListReaddir(r, failed)
    \/ \E r \in Slots : ListCallback(r)
    \/ \E r \in Slots, u \in Urls : DownloadAccess(r, u)
    \/ \E r \in Slots : DownloadOpen(r)
    \/ \E r \in Slots : DownloadPipe(r)
    \/ \E r \in Slots : Disconnect(r)

CurrentOnly ==
    \/ \E u \in Urls : DeleteUnlink(u)
    \/ \E q \in Requests : ServeStatic(q[1], q[2])

LegacyOnly ==
    \/ \E q \in Requests : LegacyClientJs(q[1], q[2])
    \/ \E q \in Requests : LegacyFallback(q[1], q[2])

Next == Common \/ CurrentOnly

NextLegacy == Common \/ LegacyOnly

NextAll == Common \/ CurrentOnly \/ LegacyOnly

\* the server of src/public/client.js
Spec == Init /\ [][Next]_vars

\* the server of src/client.js
SpecLegacy == InitLegacy /\ [][NextLegacy]_vars

\* either server
SpecAll == (Init \/ InitLegacy) /\ [][NextAll]_vars

\* the callbacks the event loop has pending for the request in slot r
Callbacks(r) ==
    \/ UploadParsed(r)
    \/ UploadRename(r)
    \/ ListCallback(r)
    \/ DownloadOpen(r)
    \/ DownloadPipe(r)

\* the server of src/public/client.js on an event loop that runs every
\* callback that is pending
SpecLive == Init /\ [][Next]_vars /\ WF_vars(\E r \in Slots : Callbacks(r))

----------------------------------------------------------------------------
(* Properties *)

\* the names of a listing, as the paths they stand for
ListedPaths(files) == {PathJoin(UPLOAD_DIR, <<files[i]>>) : i \in 1..Len(files)}

\* how often name occurs in a listing
Occurrences(files, name) == Cardinality({i \in 1..Len(files) : files[i] = name})

Overwrite ==
    /\ \A p \in DOMAIN stored : p \in DOMAIN fs /\ fs[p] = File(stored[p])
    /\ (resp.handler = "upload" /\ resp.status = 200) => resp.hist.placed
    /\ resp.handler = "files" =>
          \A i, j \in 1..Len(resp.files) : resp.files[i] = resp.files[j] => i = j

\* an upload has replaced the different content its name held
OverwriteWitness ==
    /\ resp.handler = "upload"
    /\ resp.status = 200
    /\ resp.hist.replaced
    /\ resp.hist.placed
    /\ resp.fileName = FlatName
    /\ UPLOAD_DIR \o <<"a">> \in DOMAIN fs
    /\ fs[UPLOAD_DIR \o <<"a">>] = File(B2)

\* C3: a listing that succeeds, taken while nothing changed the storage,
\* contains exactly once every original filename whose upload succeeded and
\* whose file no delete has removed since.
ListedOnce ==
    (resp.handler = "files" /\ resp.status = 200) =>
        \A n \in resp.hist.live : Occurrences(resp.files, Concat(n)) = 1

\* C4: a download of a name under which no upload ever succeeded answers 404.
DownloadNeverUploaded ==
    (resp.handler = "download" /\ resp.hist.never) => resp.status = 404

\* C5: a delete of a name under which no upload ever succeeded answers 404
\* with success false.
DeleteNeverUploaded ==
    (resp.handler = "delete" /\ resp.hist.never)
        => (resp.status = 404 /\ resp.success = "false")

\* C6: once a delete has removed the file an upload stored under N, and until
\* an upload stores N again, no listing names N and a download of N answers
\* 404.
DeletedStaysGone ==
    /\ (resp.handler = "files" /\ resp.status = 200)
          => ListedPaths(resp.files) \cap resp.hist.omit = {}
    /\ (resp.handler = "download" /\ resp.hist.gone) => resp.status = 404

\* a listing has succeeded after the delete of the uploaded file
DeletedStaysGoneWitness ==
    /\ resp.handler = "files"
    /\ resp.status = 200
    /\ UPLOAD_DIR \o <<"a">> \in resp.hist.omit
    /\ "a" \notin SeqRange(resp.files)

\* C7: a listing that succeeds names only regular files of the storage
\* directory, and every one of them when nothing changed the directory while
\* it was being read: no sub-directory, no special entry.
ListingRegular ==
    (resp.handler = "files" /\ resp.status = 200) =>
        /\ SeqRange(resp.files) \subseteq resp.hist.regular
        /\ resp.hist.clean => SeqRange(resp.files) = resp.hist.regular

\* a listing of a storage that holds a file, a sub-directory and a special entry
ListingRegularWitness ==
    /\ resp.handler = "files"
    /\ resp.status = 200
    /\ resp.hist.clean
    /\ resp.files = <<"a">>
    /\ fs[UPLOAD_DIR \o <<"d">>].type = "dir"
    /\ fs[UPLOAD_DIR \o <<"fifo">>].type = "special"

\* C8: the step that receives an OPTIONS request answers it 204 with an empty
\* body from the OPTIONS branch, starts no handler and leaves the filesystem
\* as it was.
OptionsShortCircuit ==
    [][(/\ issued' # issued
        /\ req' = req
        /\ crashed' = crashed
        /\ resp'.method = "OPTIONS")
       => (/\ resp'.handler = "options"
           /\ resp'.status = 204
           /\ resp'.body = <<>>
           /\ resp'.message = ""
           /\ fs' = fs)]_vars

\* the older server has answered OPTIONS /delete/a and the file a is still there
OptionsWitness ==
    /\ server = "legacy"
    /\ resp.handler = "options"
    /\ resp.method = "OPTIONS"
    /\ resp.url = DeletePrefix \o FlatName
    /\ resp.status = 204
    /\ UPLOAD_DIR \o <<"a">> \in DOMAIN fs

\* C9: every response carries the origin *, the methods GET, POST, DELETE and
\* OPTIONS, and the headers Content-Type and X-Requested-With.
CorsEverywhere ==
    resp.handler # "none" =>
        /\ resp.cors.origin = "*"
        /\ {"GET", "POST", "DELETE", "OPTIONS"} \subseteq SeqRange(resp.cors.methods)
        /\ {"Content-Type", "X-Requested-With"} \subseteq SeqRange(resp.cors.headers)

\* C10: an upload answers 500 when the body does not parse, 400 when it has no
\* file under myFile, 500 when the move fails, and 200 with success true and
\* the original filename exactly when the move has put the file in place.
UploadOutcomes ==
    resp.handler = "upload" =>
        LET h == resp.hist
        IN  /\ h.malformed =>
                (resp.status = 500 /\ resp.message = "File upload failed.")
            /\ (~h.malformed /\ ~h.hadFile) => resp.status = 400
            /\ (~h.malformed /\ h.hadFile /\ ~h.placed) =>
                (resp.status = 500 /\ resp.message = "Error saving file.")
            /\ h.placed <=> resp.status = 200
            /\ resp.status = 200 =>
                (resp.success = "true" /\ resp.fileName = h.sentName)
            /\ resp.status # 200 => resp.success = "false"

\* the move of an uploaded file onto a sub-directory has failed
UploadOutcomesWitness ==
    /\ resp.handler = "upload"
    /\ resp.status = 500
    /\ resp.message = "Error saving file."
    /\ resp.hist.hadFile
    /\ ~resp.hist.malformed
    /\ resp.hist.sentName = DirName

\* C11: every request but OPTIONS is answered by the handler of its route:
\* POST /upload by upload, GET /files by the listing, GET /download/{name} by
\* download, DELETE /delete/{name} by delete, and the static handler answers
\* GET requests of no route and nothing else.
RoutedOnce ==
    (resp.handler # "none" /\ resp.method # "OPTIONS") =>
        /\ resp.handler = "upload"
              <=> (resp.method = "POST" /\ resp.url = UploadUrl)
        /\ resp.handler = "files"
              <=> (resp.method = "GET" /\ resp.url = FilesUrl)
        /\ resp.handler = "download"
              <=> (resp.method = "GET" /\ StartsWith(resp.url, DownloadPrefix))
        /\ resp.handler = "delete"
              <=> (resp.method = "DELETE" /\ StartsWith(resp.url, DeletePrefix))
        /\ resp.handler = "static"
              <=> /\ resp.method = "GET"
                  /\ resp.url # FilesUrl
                  /\ ~StartsWith(resp.url, DownloadPrefix)

\* C12: no error escapes a handler: the server process is never terminated by
\* an exception, whatever the request.
NeverCrashes == ~crashed

\* C13: the static handler answers a path that names a file under the assets
\* root with 200, the content type of its extension (application/octet-stream
\* when unknown) and the file's content, / standing for the client page, and
\* it answers 404 when no file under the assets root has that path.
StaticAssets ==
    [][(/\ issued' # issued
        /\ req' = req
        /\ crashed' = crashed
        /\ resp'.handler = "static")
       => LET requested == IF resp'.url = <<"/">>
                           THEN <<"/", "client", ".html">>
                           ELSE resp'.url
              p == PathJoin(PUBLIC_DIR, requested)
              asset == /\ Len(p) > Len(PUBLIC_DIR)
                       /\ SubSeq(p, 1, Len(PUBLIC_DIR)) = PUBLIC_DIR
                       /\ p \in DOMAIN fs
                       /\ fs[p].type = "file"
          IN  IF asset
              THEN /\ resp'.status = 200
                   /\ resp'.ctype = MimeType(ExtName(requested))
                   /\ resp'.body = fs[p].content
              ELSE resp'.status = 404]_vars

\* C14: whenever the rename of an upload succeeds, also while another upload
\* to the same name is in flight, the destination then holds exactly the
\* whole content of that upload, and the staged content of every other upload
\* waiting for its rename is untouched: the rename that completes last decides.
LastRenameWins ==
    [][\A r \in Slots :
          (req[r].pc = "rename" /\ req'[r].pc = "idle" /\ resp'.status = 200) =>
              /\ req[r].filePath \in DOMAIN fs'
              /\ fs'[req[r].filePath] = File(req[r].bytes)
              /\ req[r].bytes \in Contents
              /\ \A q \in Slots \ {r} :
                    (req[q].pc = "rename" /\ req[q].oldPath \in DOMAIN fs) =>
                        /\ req[q].oldPath \in DOMAIN fs'
                        /\ fs'[req[q].oldPath] = File(req[q].bytes)]_vars

\* the second of two concurrent uploads to a has replaced the bytes the
\* first one's rename put there while the second waited for its own
LastRenameWinsWitness ==
    /\ resp.handler = "upload"
    /\ resp.status = 200
    /\ resp.hist.raced
    /\ resp.hist.replaced
    /\ resp.hist.sentName = FlatName
    /\ UPLOAD_DIR \o <<"a">> \in DOMAIN fs
    /\ fs[UPLOAD_DIR \o <<"a">>] = File(B2)
    /\ \A r \in Slots : req[r].pc = "idle"

\* C15: a download of a name that held a stored file when the request came,
\* racing a delete of that name (no upload replacing the file meanwhile), ends
\* in one of two ways: 404, or 200 with the bytes of the file as its body.
DeleteDownloadRace ==
    (resp.handler = "download" /\ resp.hist.had # <<>> /\ ~resp.hist.swapped) =>
        \/ resp.status = 404
        \/ resp.status = 200 /\ resp.body = resp.hist.had[1]

\* the read stream of the download in slot r cannot open its file
StreamFails(r) ==
    /\ req[r].pc = "open"
    /\ ~(req[r].filePath \in DOMAIN fs /\ fs[req[r].filePath].type = "file")

\* C16: a download whose stream fails after the 200 headers were sent is
\* ended all the same: the request does not stay open (unless the process has
\* died), and the response that ends it still has status 200.
StreamErrorEnds ==
    /\ \A r \in Slots : StreamFails(r) ~> (req[r].pc = "idle" \/ crashed)
    /\ [][\A r \in Slots :
             (StreamFails(r) /\ req'[r].pc # "open") =>
                 /\ req'[r].pc = "idle"
                 /\ resp'.handler = "download"
                 /\ resp'.status = 200
                 /\ resp'.body = <<"Error downloading file.">>]_vars

\* a download of the sub-directory d has been ended after its stream failed
StreamErrorEndsWitness ==
    /\ resp.handler = "download"
    /\ resp.url = DownloadPrefix \o DirName
    /\ resp.status = 200
    /\ resp.body = <<"Error downloading file.">>
    /\ \A r \in Slots : req[r].pc = "idle"

\* the downloads whose file is being piped to a response
Streaming == Cardinality({r \in Slots : req[r].pc = "stream"})

\* C17: a file descriptor that a read stream holds open with no response left
\* to write to (the client has disconnected) is eventually released.
HandleReleased == (handles > Streaming) ~> (handles <= Streaming \/ crashed)

\* C18: a listing whose enumeration returned an entry that is gone when it is
\* inspected still succeeds: it names exactly the enumerated entries that are
\* regular files when inspected, and leaves the others out.
ListingSkips ==
    (resp.handler = "files" /\ resp.status = 200) =>
        /\ SeqRange(resp.files) = resp.hist.enumerated \cap resp.hist.regular
        /\ SeqRange(resp.files) \cap resp.hist.missing = {}

\* a listing has named the file a and left out a staging file that a failed
\* upload removed between the enumeration and the inspection
ListingSkipsWitness ==
    /\ resp.handler = "files"
    /\ resp.status = 200
    /\ StagingName(1) \in resp.hist.missing
    /\ resp.files = <<"a">>

\* C19: no step of a download changes the filesystem: not the arrival of the
\* request with its fs.access, whether it answers 404 or goes on, not the
\* opening of the read stream or its failure, not the transfer.
DownloadReadOnly ==
    [][(\/ \E r \in Slots : req[r].pc = "idle" /\ req'[r].pc = "open"
        \/ \E r \in Slots : req[r].pc = "open" /\ req'[r].pc # "open"
        \/ \E r \in Slots : req[r].pc = "stream" /\ req'[r].pc # "stream"
        \/ (issued' # issued /\ req' = req /\ resp'.handler = "download"))
       => fs' = fs]_vars

\* the only request so far was a download of a, answered with its bytes, and
\* the storage is as the server found it
DownloadReadOnlyWitness ==
    /\ issued = 1
    /\ resp.handler = "download"
    /\ resp.status = 200
    /\ resp.body = B1
    /\ UPLOAD_DIR \o <<"a">> \in DOMAIN fs
    /\ fs[UPLOAD_DIR \o <<"a">>] = File(B1)
    /\ ReaddirNames(fs) = {"a", "d", "fifo"}

\* the paths formidable stages file parts at
IsStaging(p) == \E n \in 1..(2 * MaxRequests) : p = UPLOAD_DIR \o <<StagingName(n)>>

\* C20: what is readable under a final name changes only by the rename of an
\* upload to that name, which puts there, in one step, the whole content its
\* staging file held; no other step creates or rewrites a file under a final
\* name, so a partially written file is never readable under one.
AtomicVisibility ==
    [][\A p \in DOMAIN fs' :
          (~IsStaging(p) /\ (p \notin DOMAIN fs \/ fs[p] # fs'[p])) =>
              \E r \in Slots :
                  /\ req[r].pc = "rename"
                  /\ req'[r].pc = "idle"
                  /\ req[r].filePath = p
                  /\ fs'[p] = File(req[r].bytes)
                  /\ req[r].oldPath \in DOMAIN fs
                  /\ fs[req[r].oldPath] = fs'[p]
                  /\ req[r].oldPath \notin DOMAIN fs']_vars

\* an upload of a is in progress: its staging file is partly written and the
\* name a still holds the whole content of the earlier upload
AtomicVisibilityWitness ==
    \E r \in Slots :
        /\ req[r].pc = "parse"
        /\ Len(req[r].parts) = 1
        /\ req[r].parts[1].originalFilename = FlatName
        /\ req[r].parts[1].bytes = B2
        /\ req[r].parts[1].filepath \in DOMAIN fs
        /\ fs[req[r].parts[1].filepath] = File(Front(B2))
        /\ UPLOAD_DIR \o <<"a">> \in DOMAIN fs
        /\ fs[UPLOAD_DIR \o <<"a">>] = File(B1)
        /\ UPLOAD_DIR \o <<"a">> \in DOMAIN stored
        /\ stored[UPLOAD_DIR \o <<"a">>] = B1

\* C21: of several files sent in the field myFile only the first is put under
\* its original filename and named in the response; the name of the second
\* file never holds a file.
FirstFileOnly ==
    /\ PathJoin(UPLOAD_DIR, SecondName) \notin DOMAIN fs
    /\ PathJoin(UPLOAD_DIR, SecondName) \notin DOMAIN stored
    /\ (resp.handler = "upload" /\ resp.hist.rest # {} /\ resp.status = 200) =>
          /\ resp.fileName = FlatName
          /\ resp.fileName = resp.hist.sentName
          /\ resp.hist.placed
          /\ resp.fileName \notin resp.hist.rest

\* an upload of two files in myFile has answered with the first one's name;
\* the bytes of the second are in a staging file only
FirstFileOnlyWitness ==
    /\ resp.handler = "upload"
    /\ resp.status = 200
    /\ resp.hist.rest = {SecondName}
    /\ resp.fileName = FlatName
    /\ UPLOAD_DIR \o <<"a">> \in DOMAIN fs
    /\ fs[UPLOAD_DIR \o <<"a">>] = File(B1)
    /\ \E n \in 1..(2 * MaxRequests) :
          /\ UPLOAD_DIR \o <<StagingName(n)>> \in DOMAIN fs
          /\ fs[UPLOAD_DIR \o <<StagingName(n)>>] = File(B2)

\* C22: an upload answered 400 or 500 leaves the storage directory as it was:
\* no staging file of the request is still there when the response is sent, and
\* no other path has changed.
FailedUploadLeavesStorage ==
    (resp.handler = "upload" /\ resp.status \in {400, 500}) =>
        /\ resp.hist.left = {}
        /\ ~resp.hist.placed

\* C23: the file a download answers 200 for, and the file a delete removes, is
\* a direct child of the storage directory, whatever the final segment of the
\* request path decodes to.
ConfinedToStorage ==
    (resp.handler \in {"download", "delete"} /\ resp.status = 200) =>
        Parent(PathJoin(UPLOAD_DIR, resp.fileName)) = UPLOAD_DIR

\* C24: every name a successful listing returns is the original filename of
\* an upload that succeeded, and none is the name of a staging file, also
\* while uploads are in flight.
ListingOnlyUploads ==
    (resp.handler = "files" /\ resp.status = 200) =>
        \A i \in 1..Len(resp.files) :
            /\ \E n \in ever : Concat(n) = resp.files[i]
            /\ ~IsStaging(UPLOAD_DIR \o <<resp.files[i]>>)

====
